---- MODULE Spec2Model ----
(***************************************************************************)
(* Model of src/sim.py: rand_bursts, SimThread, Scheduler (add_thread,     *)
(* reset, step, run, stop) and the callbacks of SimulatorApp that start,   *)
(* pause and reset the background run loop and refresh the display.        *)
(*                                                                         *)
(* A Python object is modelled by a slot number: a SimThread by its slot   *)
(* in threads (which is also its tid), a workload list by its cell in      *)
(* lists.  A SimThread keeps a reference to the list it was given, so two  *)
(* threads built from one list share its cell.  The payload None of an     *)
(* event is modelled by 0.                                                 *)
(***************************************************************************)
EXTENDS Integers, Sequences, FiniteSets, TLC

\* ---------------------------------------------------------------- bounds
MaxThreads == 2      \* SimThread objects registered one by one (add_thread) at once
MaxCores   == 2      \* cpu_cores ranges over 1..MaxCores
MaxWork    == 6      \* cpu + io ticks of all the workloads registered in a run
MaxTime    == 5      \* ticks per run (cap on Scheduler.time)
MaxLoops   == 2      \* background threads executing Scheduler.run
MaxRunWork == 4      \* as MaxWork, in the run-loop specification
MaxRunTime == 2      \* as MaxTime, in the run-loop specification
MaxRunCalls == 3     \* calls of the caller in the run-loop specification
MaxDetTime == 3      \* as MaxTime, in the replay specification
MaxLiveWork == 5     \* as MaxWork, in the specification of one run to completion
MaxCallWork == 3     \* as MaxWork, in the specification of the direct calls
MaxCallTime == 3     \* as MaxTime, in the specification of the direct calls
MaxRaceWork == 4     \* as MaxWork, in the specification of the concurrent callers
MaxRaceTime == 2     \* as MaxTime, in the specification of the concurrent callers
MaxViewWork == 4     \* as MaxWork, in the specification of the display
MaxViewTime == 2     \* as MaxTime, in the specification of the display
MaxRefresh == 2      \* runs of the display's periodic callback
MaxBatchWork == 15   \* cpu + io ticks of the workloads drawn in one _add_threads()
MaxBatchTime == 1    \* ticks begun while a call of _add_threads is executing (cap on Scheduler.time)

\* ---------------------------------------------------------------- constants
count   == 3         \* rand_bursts(count=3, ...): bursts of a random workload
max_len == 5         \* rand_bursts(..., max_len=5): longest cpu or io length
batch   == 5         \* _add_threads: for i in range(5)

\* Room for the threads registered one by one or for those of one call of
\* _add_threads.
Slots == 1..(IF MaxThreads > batch THEN MaxThreads ELSE batch)
Cells == Slots
Loops == 1..MaxLoops

\* The threads of the process: the background threads are numbered by Loops,
\* Caller is the thread that builds the scheduler and calls it (in the
\* application, the thread of the user interface).  Free: nobody.
Free   == 0
Caller == 0 - 1

\* ---------------------------------------------------------------- state
VARIABLES
  time,            \* Scheduler.time
  ready_queue,     \* Scheduler.ready_queue  (deque of threads)
  blocked,         \* Scheduler.blocked      (list of (thread, remaining_io))
  running,         \* Scheduler.running      (list of threads)
  all_threads,     \* Scheduler.all_threads  (list of threads)
  event_queue,     \* Scheduler.event_queue  (FIFO of (time, ev, data))
  running_flag,    \* Scheduler.running_flag
  cpu_cores,       \* Scheduler.cpu_cores
  model,           \* Scheduler.model
  threads,         \* the SimThread objects: state, bursts, current_burst_remaining, timeline
  lists,           \* the workload lists: lists[c] is the content of the list in cell c
  lock,            \* Scheduler.lock: the thread that holds it, or Free
  workload0,       \* history: the content of its list when each SimThread was built
  list0,           \* history: the content of each list when the caller built it
  loop_pc,         \* position of each background thread inside Scheduler.run
  sim_thread,      \* SimulatorApp.sim_thread (0 = None)
  ui_pc,           \* position of the caller inside the call it is executing
  ui,              \* the local variables of that call
  step_pc,         \* position of the holder of the lock inside step()
  loc,             \* the local variables of that step()
  listbox,         \* SimulatorApp.thread_listbox: the rows (tid, state)
  chart,           \* SimulatorApp.ax: the bars and the title of the timeline
  dialogs,         \* the message boxes shown by _handle_event
  refreshes,       \* history: the runs of the display's callback so far
  settled,         \* history: reset() has returned and nothing was called since
  script,          \* history: the calls the caller has made (in a replay: since reset())
  prev,            \* history: the run that the last reset() ended
  stop_seen,       \* history: what a stop() found each background thread doing
  tick_hist,       \* history: the tick in progress, as it began and as it must end
  view_hist        \* history: the ticks and calls a pass of the display overlapped

sched_vars == <<time, ready_queue, blocked, running, all_threads, event_queue,
                running_flag, cpu_cores, model, threads, lists>>

view_vars == <<listbox, chart, dialogs, refreshes>>

step_vars == <<lock, step_pc, loc>>

ui_vars == <<ui_pc, ui>>

loop_vars == <<loop_pc, sim_thread>>

hist_vars == <<script, prev>>

race_vars == <<stop_seen, tick_hist, view_hist>>

vars == <<time, ready_queue, blocked, running, all_threads, event_queue,
          running_flag, cpu_cores, model, threads, lists, lock, workload0, list0,
          loop_pc, sim_thread, ui_pc, ui, step_pc, loc, listbox, chart, dialogs,
          refreshes,
          settled, script, prev, stop_seen, tick_hist, view_hist>>

\* ---------------------------------------------------------------- helpers
Range(q) == {q[i] : i \in 1..Len(q)}

RECURSIVE SumCpu(_)
SumCpu(bs) == IF bs = <<>> THEN 0 ELSE bs[1][1] + SumCpu(Tail(bs))

RECURSIVE SumIo(_)
SumIo(bs) == IF bs = <<>> THEN 0 ELSE bs[1][2] + SumIo(Tail(bs))

\* The ticks a workload asks for, cpu and io.
Work(bs) == SumCpu(bs) + SumIo(bs)

\* The scheduler, its threads and their lists as one value, so that the
\* methods can be written as functions from state to state.
Sched == [time |-> time, ready_queue |-> ready_queue, blocked |-> blocked,
          running |-> running, all_threads |-> all_threads,
          event_queue |-> event_queue, running_flag |-> running_flag,
          cpu_cores |-> cpu_cores, model |-> model, threads |-> threads,
          lists |-> lists]

Install(s) ==
  /\ time' = s.time
  /\ ready_queue' = s.ready_queue
  /\ blocked' = s.blocked
  /\ running' = s.running
  /\ all_threads' = s.all_threads
  /\ event_queue' = s.event_queue
  /\ running_flag' = s.running_flag
  /\ cpu_cores' = s.cpu_cores
  /\ model' = s.model
  /\ threads' = s.threads
  /\ lists' = s.lists

\* ---------------------------------------------------------------- workloads
\* A burst (cpu, io) with cpu >= 1 and io >= 0; the last burst of a workload
\* has io 0.
Burst == { b \in (1..MaxWork) \X (0..MaxWork) : b[1] + b[2] <= MaxWork }

LastBurst == { b \in Burst : b[2] = 0 }

\* The workloads a caller builds: 1..count bursts.
Workloads ==
  UNION {
    { bs \in [1..n -> Burst] : bs[n] \in LastBurst /\ Work(bs) <= MaxWork } :
      n \in 1..count }

\* rand_bursts(): count bursts, cpu drawn from 1..max_len, io from 0..max_len
\* and 0 for the last.
rand_bursts ==
  { bs \in Workloads :
      /\ Len(bs) = count
      /\ \A i \in 1..count : bs[i][1] <= max_len /\ bs[i][2] <= max_len }

\* The workloads that ask for at most k ticks.
bursts_within == [k \in 0..MaxWork |-> { bs \in Workloads : Work(bs) <= k }]

\* ---------------------------------------------------------------- SimThread
NoThread == [state |-> "NONE", bursts |-> 0, current_burst_remaining |-> 0,
             timeline |-> <<>>]

\* self.bursts = bursts or rand_bursts(): the lists a new SimThread may keep.
\* given is the cell of the list the caller passes (0 = None), fresh the
\* cell of a list that rand_bursts() would build, drawn the workloads it may
\* return.  The result is the heap and the cell the thread keeps.
bursts_or_rand(ls, given, fresh, drawn) ==
  IF given # 0 /\ ls[given] # <<>>
  THEN { [lists |-> ls, cell |-> given] }
  ELSE { [lists |-> [ls EXCEPT ![fresh] = w], cell |-> fresh] : w \in drawn }

SimThread(bursts) ==
  [state |-> "NEW", bursts |-> bursts, current_burst_remaining |-> 0,
   timeline |-> <<>>]

\* th.bursts, the list that thread th keeps.
Bursts(s, th) == s.lists[s.threads[th].bursts]

start_ready(s, th) ==
  IF s.threads[th].state = "NEW"
  THEN [s EXCEPT !.threads[th].state = "READY",
                 !.threads[th].current_burst_remaining = Bursts(s, th)[1][1]]
  ELSE s

\* Mutant: the dispatch forgets to change the thread's state.
to_running_skip(s, th) == s

to_running(s, th) == [s EXCEPT !.threads[th].state = "RUNNING"]

to_blocked(s, th) == [s EXCEPT !.threads[th].state = "BLOCKED"]

to_ready(s, th) == [s EXCEPT !.threads[th].state = "READY"]

terminate(s, th) == [s EXCEPT !.threads[th].state = "TERMINATED"]

\* ---------------------------------------------------------------- Scheduler
_emit(s, ev, data) ==
  [s EXCEPT !.event_queue = Append(@, <<s.time, ev, data>>)]

\* Mutant: stop() leaves the flag as it is.
stop_ignored(s) == s

stop(s) == [s EXCEPT !.running_flag = FALSE]

add_thread(s, th) ==
  LET s1 == [s EXCEPT !.all_threads = Append(@, th)]
      s2 == start_ready(s1, th)
      s3 == [s2 EXCEPT !.ready_queue = Append(@, th)]
  IN  _emit(s3, "added", th)

\* reset, lines 91-99: the part under the scheduler lock.
reset_clear(s) ==
  [s EXCEPT !.time = 0, !.ready_queue = <<>>, !.blocked = <<>>,
            !.running = <<>>, !.all_threads = <<>>, !.event_queue = <<>>]

\* Mutant: a thread is unblocked only when its remaining I/O is below 0.
RECURSIVE io_unblock_loop_late(_, _, _, _, _)
io_unblock_loop_late(s, bl, i, new_ready, still_blocked) ==
  IF i > Len(bl)
  THEN [s EXCEPT !.blocked = still_blocked,
                 !.ready_queue = @ \o new_ready]
  ELSE LET th == bl[i][1]
           remaining_io == bl[i][2] - 1
       IN  IF remaining_io < 0
           THEN io_unblock_loop_late(_emit(to_ready(s, th), "unblocked", th),
                                     bl, i + 1, Append(new_ready, th), still_blocked)
           ELSE io_unblock_loop_late(s, bl, i + 1, new_ready,
                                     Append(still_blocked, <<th, remaining_io>>))

\* step, phase 1 (lines 105-119): the loop over list(self.blocked).
RECURSIVE io_unblock_loop(_, _, _, _, _)
io_unblock_loop(s, bl, i, new_ready, still_blocked) ==
  IF i > Len(bl)
  THEN [s EXCEPT !.blocked = still_blocked,
                 !.ready_queue = @ \o new_ready]
  ELSE LET th == bl[i][1]
           remaining_io == bl[i][2] - 1
       IN  IF remaining_io <= 0
           THEN io_unblock_loop(_emit(to_ready(s, th), "unblocked", th),
                                bl, i + 1, Append(new_ready, th), still_blocked)
           ELSE io_unblock_loop(s, bl, i + 1, new_ready,
                                Append(still_blocked, <<th, remaining_io>>))

io_unblocking(s) == io_unblock_loop(s, s.blocked, 1, <<>>, <<>>)

\* Mutant: the running list is not filtered.
still_running_unfiltered(s) == s.running

\* step, phase 2 (lines 122-130).
still_running(s) ==
  SelectSeq(s.running, LAMBDA th : s.threads[th].state = "RUNNING")

\* Mutant: the dispatch takes the thread at the tail of the ready queue.
RECURSIVE fill_cores_lifo(_, _)
fill_cores_lifo(s, vacancies) ==
  IF vacancies <= 0 THEN s
  ELSE IF s.ready_queue # <<>>
       THEN LET n  == Len(s.ready_queue)
                th == s.ready_queue[n]
                s1 == [s EXCEPT !.ready_queue = SubSeq(@, 1, n - 1)]
                s2 == to_running(s1, th)
                s3 == [s2 EXCEPT !.running = Append(@, th)]
            IN  fill_cores_lifo(_emit(s3, "running", th), vacancies - 1)
       ELSE fill_cores_lifo(s, vacancies - 1)

RECURSIVE fill_cores(_, _)
fill_cores(s, vacancies) ==
  IF vacancies <= 0 THEN s
  ELSE IF s.ready_queue # <<>>
       THEN LET th == Head(s.ready_queue)
                s1 == [s EXCEPT !.ready_queue = Tail(@)]
                s2 == to_running(s1, th)
                s3 == [s2 EXCEPT !.running = Append(@, th)]
            IN  fill_cores(_emit(s3, "running", th), vacancies - 1)
       ELSE fill_cores(s, vacancies - 1)

\* Mutant: every core counts as vacant.
scheduling_all_vacant(s) ==
  LET s1 == [s EXCEPT !.running = still_running(s)]
  IN  fill_cores(s1, s1.cpu_cores)

scheduling(s) ==
  LET s1 == [s EXCEPT !.running = still_running(s)]
  IN  fill_cores(s1, s1.cpu_cores - Len(s1.running))

\* Mutant: the I/O length is read from the burst that has just completed.
execute_one_own_io(s, th) ==
  LET s1 == [s EXCEPT !.threads[th].current_burst_remaining = @ - 1]
      s2 == [s1 EXCEPT !.threads[th].timeline =
                          Append(@, <<s1.time, s1.threads[th].state>>)]
  IN  IF s2.threads[th].current_burst_remaining <= 0
      THEN IF Len(Bursts(s2, th)) > 1
           THEN LET io_time == Bursts(s2, th)[1][2]
                    s3 == [s2 EXCEPT !.lists[s2.threads[th].bursts] = Tail(@)]
                IN  IF io_time > 0
                    THEN LET s4 == to_blocked(s3, th)
                             s5 == [s4 EXCEPT !.blocked = Append(@, <<th, io_time>>)]
                         IN  _emit(s5, "blocked", th)
                    ELSE LET s4 == to_ready(s3, th)
                             s5 == [s4 EXCEPT !.threads[th].current_burst_remaining =
                                                 Bursts(s4, th)[1][1]]
                             s6 == [s5 EXCEPT !.ready_queue = Append(@, th)]
                         IN  _emit(s6, "ready", th)
           ELSE _emit(terminate(s2, th), "terminated", th)
      ELSE s2

\* step, phase 3 (lines 133-153): the body of the loop for one thread.
\* th.bursts.pop(0) shortens the list in the thread's cell, for every thread
\* that keeps that list.
execute_one(s, th) ==
  LET s1 == [s EXCEPT !.threads[th].current_burst_remaining = @ - 1]
      s2 == [s1 EXCEPT !.threads[th].timeline =
                          Append(@, <<s1.time, s1.threads[th].state>>)]
  IN  IF s2.threads[th].current_burst_remaining <= 0
      THEN IF Len(Bursts(s2, th)) > 1
           THEN LET s3 == [s2 EXCEPT !.lists[s2.threads[th].bursts] = Tail(@)]
                    io_time == Bursts(s3, th)[1][2]
                IN  IF io_time > 0
                    THEN LET s4 == to_blocked(s3, th)
                             s5 == [s4 EXCEPT !.blocked = Append(@, <<th, io_time>>)]
                         IN  _emit(s5, "blocked", th)
                    ELSE LET s4 == to_ready(s3, th)
                             s5 == [s4 EXCEPT !.threads[th].current_burst_remaining =
                                                 Bursts(s4, th)[1][1]]
                             s6 == [s5 EXCEPT !.ready_queue = Append(@, th)]
                         IN  _emit(s6, "ready", th)
           ELSE _emit(terminate(s2, th), "terminated", th)
      ELSE s2

RECURSIVE execute_loop(_, _, _)
execute_loop(s, run, i) ==
  IF i > Len(run) THEN s
  ELSE execute_loop(execute_one(s, run[i]), run, i + 1)

execution(s) == execute_loop(s, s.running, 1)

\* step, phase 4 (lines 158-169).
all_done(s) ==
  \A i \in 1..Len(s.all_threads) : s.threads[s.all_threads[i]].state = "TERMINATED"

\* Mutant: the completion check does not test that the registry is non-empty.
completion_unguarded(s) ==
  IF all_done(s) THEN _emit(stop(s), "finished", 0) ELSE s

completion(s) ==
  IF s.all_threads # <<>>
  THEN IF all_done(s) THEN _emit(stop(s), "finished", 0) ELSE s
  ELSE s

\* step, lines 101-169: the tick is counted (s0), then the phases follow in the
\* order of the code, each applied to the state the one before it produced
\* (s1 after the I/O unblocking, s2 after the scheduling, s3 after the
\* execution, s4 after the `tick` event, s5 after the completion check).
step(s) ==
  CHOOSE s5 \in { completion(s4) :
      s4 \in { _emit(s3, "tick", 0) :
        s3 \in { execution(s2) :
          s2 \in { scheduling(s1) :
            s1 \in { io_unblocking(s0) :
              s0 \in { [s EXCEPT !.time = @ + 1] } } } } } } : TRUE

\* ---------------------------------------------------------------- display
\* The bar that _draw_timeline draws for a thread: a timeline whose entries
\* all carry the same state gives one segment, from its first entry to the
\* tick t read when the loop over the timeline has ended (lines 381-397).
RECURSIVE segs_loop(_, _, _, _, _)
segs_loop(tl, i, last_state, last_time, segs) ==
  IF i > Len(tl)
  THEN [segs |-> segs, last_state |-> last_state, last_time |-> last_time]
  ELSE IF last_state = "NONE"
       THEN segs_loop(tl, i + 1, tl[i][2], tl[i][1], segs)
       ELSE IF tl[i][2] = last_state
            THEN segs_loop(tl, i + 1, last_state, last_time, segs)
            ELSE segs_loop(tl, i + 1, tl[i][2], tl[i][1],
                           Append(segs, <<last_time, tl[i][1] - last_time, last_state>>))

\* Line 396-397: the segment that is still open ends at the tick t.
last_seg(r, t) ==
  IF r.last_state # "NONE"
  THEN Append(r.segs, <<r.last_time, t - r.last_time + 1, r.last_state>>)
  ELSE r.segs

segments(tl, t) == last_seg(segs_loop(tl, 1, "NONE", 0, <<>>), t)

\* sorted(all_threads, key=tid): insertion sort of the registry by tid.
RECURSIVE sorted(_)
sorted(q) ==
  IF q = <<>> THEN <<>>
  ELSE LET rest == sorted(Tail(q))
       IN  SelectSeq(rest, LAMBDA x : x < Head(q)) \o <<Head(q)>>
             \o SelectSeq(rest, LAMBDA x : x >= Head(q))

\* The axes as __init__ and _reset_sim leave them: no bars, the title without
\* a tick.
NoChart == [title |-> "CPU Scheduling Timeline", t |-> 0, bars |-> <<>>]

\* ax.clear(), line 375.
ClearChart == [title |-> "", t |-> 0, bars |-> <<>>]

NoSegs == [segs |-> <<>>, last_state |-> "NONE", last_time |-> 0]

\* What the display reads: the registry, each thread's state and timeline,
\* and the tick (_refresh_listbox, _draw_timeline).
Snap(s) ==
  [time |-> s.time, all_threads |-> s.all_threads,
   threads |-> [th \in Slots |-> [state |-> s.threads[th].state,
                                   timeline |-> s.threads[th].timeline]]]

\* _refresh_listbox on a scheduler that stands still.
rows(s) == [i \in 1..Len(s.all_threads) |->
              <<s.all_threads[i], s.threads[s.all_threads[i]].state>>]

\* _draw_timeline on a scheduler that stands still; old is the chart before.
drawn_chart(s, old) ==
  IF s.all_threads = <<>> THEN old
  ELSE [title |-> "Scheduling Timeline", t |-> s.time,
        bars |-> [i \in 1..Len(s.all_threads) |->
                    <<sorted(s.all_threads)[i],
                      segments(s.threads[sorted(s.all_threads)[i]].timeline, s.time)>>]]

\* ---------------------------------------------------------------- actions
NoRun == [recorded |-> FALSE, same |-> FALSE, script |-> <<>>, events |-> <<>>,
          timelines |-> [th \in Slots |-> <<>>],
          list0 |-> [c \in Cells |-> <<>>]]

NoUi == [th |-> 0, item |-> <<>>, k |-> 0, r |-> NoSegs, start_id |-> 0, i |-> 0]

NoLoc == [i |-> 0, bl |-> <<>>, new_ready |-> <<>>, still_blocked |-> <<>>,
          vacancies |-> 0, run |-> <<>>, th |-> 0, all_done |-> FALSE]

NoSnap == [time |-> 0, all_threads |-> <<>>,
           threads |-> [th \in Slots |-> [state |-> "NONE", timeline |-> <<>>]]]

NoTick == [before |-> NoSnap, after |-> NoSnap, clean |-> TRUE]

NoPass == [open |-> FALSE, done |-> FALSE, inside |-> FALSE, clean |-> TRUE,
           before |-> NoSnap, after |-> NoSnap, chart |-> NoChart]

Init ==
  /\ time = 0
  /\ ready_queue = <<>>
  /\ blocked = <<>>
  /\ running = <<>>
  /\ all_threads = <<>>
  /\ event_queue = <<>>
  /\ running_flag = FALSE
  /\ cpu_cores \in 1..MaxCores
  /\ model = "Many-to-Many"
  /\ threads = [th \in Slots |-> NoThread]
  /\ lists = [c \in Cells |-> <<>>]
  /\ lock = Free
  /\ workload0 = [th \in Slots |-> <<>>]
  /\ list0 = [c \in Cells |-> <<>>]
  /\ loop_pc = [l \in Loops |-> "idle"]
  /\ sim_thread = 0
  /\ ui_pc = "idle"
  /\ ui = NoUi
  /\ step_pc = "idle"
  /\ loc = NoLoc
  /\ listbox = <<>>
  /\ chart = NoChart
  /\ dialogs = 0
  /\ refreshes = 0
  /\ settled = FALSE
  /\ script = <<>>
  /\ prev = NoRun
  /\ stop_seen = [l \in Loops |-> "no"]
  /\ tick_hist = NoTick
  /\ view_hist = NoPass

RECURSIVE RegisteredWork(_)
RegisteredWork(i) ==
  IF i > Len(all_threads) THEN 0
  ELSE Work(workload0[all_threads[i]]) + RegisteredWork(i + 1)

\* The workloads a caller may still register in this run.
Affordable(budget) ==
  IF Len(all_threads) < MaxThreads /\ RegisteredWork(1) < budget
  THEN bursts_within[budget - RegisteredWork(1)]
  ELSE {}

\* The cell of the next list that is built.
FreshCell == CHOOSE c \in Cells : lists[c] = <<>> /\ \A d \in Cells : lists[d] = <<>> => c <= d

\* The lists that registered threads keep.
KeptCells == { threads[all_threads[i]].bursts : i \in 1..Len(all_threads) }

\* What the caller passes as bursts to SimThread(tid, bursts): a list it
\* builds for this call (w is written into a free cell), a list it has passed
\* before and kept, or nothing (None or an empty list: given = 0).
Arguments(budget) ==
  { [given |-> FreshCell, w |-> w] : w \in Affordable(budget) }
    \cup { [given |-> c, w |-> lists[c]] :
             c \in { d \in KeptCells : lists[d] \in Affordable(budget) } }
    \cup ( IF rand_bursts \cap Affordable(budget) # {}
           THEN { [given |-> 0, w |-> <<>>] } ELSE {} )

\* The caller builds SimThread(tid, bursts) and registers it:
\* scheduler.add_thread(SimThread(tid, bursts)).  The new tid is
\* len(all_threads) + 1.
Build(arg, budget) ==
  LET th == Len(all_threads) + 1
      built == IF arg.given # 0 THEN [lists EXCEPT ![arg.given] = arg.w] ELSE lists
  IN  { [Sched EXCEPT !.lists = r.lists, !.threads[th] = SimThread(r.cell)] :
          r \in bursts_or_rand(built, arg.given, FreshCell,
                               rand_bursts \cap Affordable(budget)) }

Built(s) ==
  LET th == Len(all_threads) + 1
  IN  /\ workload0' = [workload0 EXCEPT ![th] = Bursts(s, th)]
      /\ list0' = [c \in Cells |-> IF lists[c] = <<>> THEN s.lists[c] ELSE list0[c]]

DoAdd(arg, budget) ==
  /\ ui_pc = "idle"
  /\ \E s \in Build(arg, budget) :
       /\ Install(add_thread(s, Len(all_threads) + 1))
       /\ Built(s)
  /\ settled' = FALSE
  /\ UNCHANGED <<loop_vars, ui_vars, step_vars, view_vars, race_vars>>

AddThread ==
  /\ \E arg \in Arguments(MaxWork) : DoAdd(arg, MaxWork)
  /\ UNCHANGED hist_vars

\* A direct call of step() by the caller.
DoStep ==
  /\ ui_pc = "idle"
  /\ lock = Free
  /\ time < MaxTime
  /\ Install(step(Sched))
  /\ settled' = FALSE
  /\ UNCHANGED <<workload0, list0, loop_vars, ui_vars, step_vars, view_vars, race_vars>>

Step == DoStep /\ UNCHANGED hist_vars

\* A call of reset() with no run loop in the way: stop(), then the clear.
\* The SimThread objects dropped from the registry are no longer reachable;
\* the caller either keeps the lists it built or drops them.  A list that no
\* thread keeps is a value: a caller that passes it again passes what a new
\* list with the same content would be.
DoReset(keep) ==
  /\ ui_pc = "idle"
  /\ lock = Free
  /\ Install([reset_clear(stop(Sched)) EXCEPT
                !.threads = [th \in Slots |-> NoThread],
                !.lists = IF keep THEN @ ELSE [c \in Cells |-> <<>>]])
  /\ workload0' = [th \in Slots |-> <<>>]
  /\ list0' = IF keep THEN list0 ELSE [c \in Cells |-> <<>>]
  /\ settled' = TRUE
  /\ UNCHANGED <<loop_vars, ui_vars, step_vars, view_vars, race_vars>>

Reset == DoReset(FALSE) /\ UNCHANGED hist_vars

Next == AddThread \/ Step \/ Reset

Spec == Init /\ [][Next]_vars

\* ---------------------------------------------------------------- replay
\* A run, reset(), and the same calls once more: the first run is free, the
\* run after the reset repeats its calls (same workloads, same order, same
\* steps) on newly built SimThread objects.  The workloads are pre-built: the
\* caller either passes the lists of the first run again (prev.same) or
\* builds them again, as they were, before it passes them.
Replaying == prev.recorded

NextCall == prev.script[Len(script) + 1]

CanCall == ~Replaying \/ Len(script) < Len(prev.script)

\* What the next add_thread may be given: any pre-built list in the first
\* run, the list of the call it repeats in the second.
DetArguments ==
  IF Replaying
  THEN IF NextCall[1] = "add_thread"
       THEN { [given |-> NextCall[2],
               w |-> IF lists[NextCall[2]] = <<>> THEN prev.list0[NextCall[2]]
                     ELSE lists[NextCall[2]]] }
       ELSE {}
  ELSE { arg \in Arguments(MaxWork) : arg.given # 0 }

DetAdd ==
  /\ CanCall
  /\ \E arg \in DetArguments :
       /\ DoAdd(arg, MaxWork)
       /\ script' = Append(script, <<"add_thread", arg.given>>)
  /\ UNCHANGED prev

DetStep ==
  /\ CanCall
  /\ time < MaxDetTime
  /\ Replaying => NextCall = <<"step", 0>>
  /\ DoStep
  /\ script' = Append(script, <<"step", 0>>)
  /\ UNCHANGED prev

DetReset ==
  /\ ~Replaying
  /\ script # <<>>
  /\ \E keep \in BOOLEAN :
       /\ DoReset(keep)
       /\ prev' = [recorded |-> TRUE, same |-> keep, script |-> script,
                   events |-> event_queue,
                   timelines |-> [th \in Slots |-> threads[th].timeline],
                   list0 |-> list0]
  /\ script' = <<>>

NextDet == DetAdd \/ DetStep \/ DetReset

SpecDet == Init /\ [][NextDet]_vars

\* ---------------------------------------------------------------- direct calls
\* A harness that, besides add_thread() and step(), calls the transitions of a
\* SimThread it holds directly and registers a SimThread a second time.
\* script keeps the last call made.
Held == { th \in Slots : threads[th].state # "NONE" }

CallAdd ==
  /\ \E arg \in Arguments(MaxCallWork) :
       /\ DoAdd(arg, MaxCallWork)
       /\ script' = << <<"add_thread", Len(all_threads) + 1>> >>
  /\ UNCHANGED prev

\* add_thread(th) on a SimThread that is registered already.
CallAddAgain ==
  /\ Len(all_threads) < MaxThreads
  /\ \E th \in Held :
       /\ Install(add_thread(Sched, th))
       /\ script' = << <<"add_thread", th>> >>
  /\ UNCHANGED <<lock, workload0, list0, loop_vars, ui_vars, step_pc, loc, view_vars,
                 settled, prev, race_vars>>

CallStep ==
  /\ time < MaxCallTime
  /\ DoStep
  /\ script' = << <<"step", 0>> >>
  /\ UNCHANGED prev

\* th.start_ready(), th.to_running(), th.to_blocked(), th.to_ready() or
\* th.terminate(), called by the harness.
CallTransition ==
  /\ \E th \in Held :
       \/ Install(start_ready(Sched, th)) /\ script' = << <<"start_ready", th>> >>
       \/ Install(to_running(Sched, th))  /\ script' = << <<"to_running", th>> >>
       \/ Install(to_blocked(Sched, th))  /\ script' = << <<"to_blocked", th>> >>
       \/ Install(to_ready(Sched, th))    /\ script' = << <<"to_ready", th>> >>
       \/ Install(terminate(Sched, th))   /\ script' = << <<"terminate", th>> >>
  /\ UNCHANGED <<lock, workload0, list0, loop_vars, ui_vars, step_pc, loc, view_vars,
                 settled, prev, race_vars>>

NextCalls == CallAdd \/ CallAddAgain \/ CallStep \/ CallTransition

SpecCalls == Init /\ [][NextCalls]_vars

\* ---------------------------------------------------------------- run loop
\* The caller is one thread: its calls follow one another, and the background
\* threads run between their lines.
\* threading.Thread.is_alive(): the thread was started and has not finished.
\* A thread that has returned from run() is alive until it has finished.
is_alive(l) == loop_pc[l] # "idle"

\* threading.Thread(target=self.scheduler.run).start(): a new background
\* thread, not yet at the first line of run().
StartThread ==
  /\ \E l \in Loops :
       /\ ~is_alive(l)
       /\ \A k \in Loops : k < l => is_alive(k)
       /\ loop_pc' = [loop_pc EXCEPT ![l] = "begin"]
       /\ sim_thread' = l

\* History: a line of the caller that writes scheduler state while a step()
\* holds the lock falls inside that tick.
touched == [tick_hist EXCEPT !.clean = @ /\ lock = Free]

\* _start_sim, lines 327-328: the spinbox (1..16) and the combobox, which is
\* left at its initial value, are copied into the scheduler.  (The calls of
\* the caller leave script and prev to the specification that makes them.)
StartCores ==
  /\ ui_pc = "idle"
  /\ \E cores_var \in 1..MaxCores, model_var \in {"Many-to-Many"} :
       /\ cpu_cores' = IF cores_var > 1 THEN cores_var ELSE 1
       /\ model' = model_var
  /\ ui_pc' = "is_alive"
  /\ settled' = FALSE
  /\ tick_hist' = touched
  /\ UNCHANGED <<time, ready_queue, blocked, running, all_threads, event_queue,
                 running_flag, threads, lists, step_vars, workload0, list0, loop_vars,
                 ui, view_vars, stop_seen, view_hist>>

\* _start_sim, line 329: self.sim_thread and self.sim_thread.is_alive().
StartAlive ==
  /\ ui_pc = "is_alive"
  /\ ui_pc' = IF sim_thread # 0 /\ is_alive(sim_thread) THEN "running_flag" ELSE "start"
  /\ UNCHANGED <<sched_vars, step_vars, workload0, list0, loop_vars, ui, view_vars,
                 settled, hist_vars, race_vars>>

\* _start_sim, line 330: if not self.scheduler.running_flag.
StartFlag ==
  /\ ui_pc = "running_flag"
  /\ ui_pc' = IF ~running_flag THEN "start" ELSE "idle"
  /\ UNCHANGED <<sched_vars, step_vars, workload0, list0, loop_vars, ui, view_vars,
                 settled, hist_vars, race_vars>>

\* _start_sim, lines 331-332 or 334-335: the thread is built and started.
StartNew ==
  /\ ui_pc = "start"
  /\ StartThread
  /\ ui_pc' = "idle"
  /\ UNCHANGED <<sched_vars, step_vars, workload0, list0, ui, view_vars,
                 settled, hist_vars, race_vars>>

\* History of a stop() issued by the caller: a background thread that is at
\* the test of the while loop (or asleep before it) has no tick in progress, one
\* that has passed the test has its tick in progress.
note_stop ==
  [l \in Loops |-> IF loop_pc[l] = "check" THEN "exit"
                   ELSE IF loop_pc[l] = "step" THEN "last"
                   ELSE stop_seen[l]]

\* SimulatorApp._pause_sim, line 338: scheduler.stop().
PauseSim ==
  /\ ui_pc = "idle"
  /\ Install(stop(Sched))
  /\ stop_seen' = note_stop
  /\ UNCHANGED <<step_vars, workload0, list0, loop_vars, ui_vars, view_vars,
                 settled, tick_hist, view_hist>>

\* reset, line 90: stop(), before the scheduler lock is taken.  settled records
\* whether every background thread alive now has entered the loop of run().
ResetStop ==
  /\ ui_pc = "idle"
  /\ Install(stop(Sched))
  /\ ui_pc' = "clear"
  /\ settled' = \A l \in Loops : loop_pc[l] # "begin"
  /\ stop_seen' = note_stop
  /\ UNCHANGED <<step_vars, workload0, list0, loop_vars, ui, view_vars,
                 tick_hist, view_hist>>

\* reset, lines 91-99: the clear, under the scheduler lock.
ResetClear ==
  /\ ui_pc = "clear"
  /\ lock = Free
  /\ Install([reset_clear(Sched) EXCEPT !.threads = [th \in Slots |-> NoThread],
                                        !.lists = [c \in Cells |-> <<>>]])
  /\ workload0' = [th \in Slots |-> <<>>]
  /\ list0' = [c \in Cells |-> <<>>]
  /\ ui_pc' = "view"
  /\ UNCHANGED <<step_vars, loop_vars, ui, view_vars, settled, hist_vars, race_vars>>

\* _reset_sim, lines 342-351: the list box and the axes are cleared and the
\* list box is filled from the registry, which reset() has emptied.
ResetView ==
  /\ ui_pc = "view"
  /\ listbox' = rows(Sched)
  /\ chart' = NoChart
  /\ ui_pc' = "idle"
  /\ UNCHANGED <<sched_vars, step_vars, workload0, list0, loop_vars, ui, dialogs,
                 refreshes, settled, hist_vars, race_vars>>

\* run, line 172.
LoopBegin(l) ==
  /\ loop_pc[l] = "begin"
  /\ running_flag' = TRUE
  /\ loop_pc' = [loop_pc EXCEPT ![l] = "check"]
  /\ UNCHANGED <<time, ready_queue, blocked, running, all_threads, event_queue,
                 cpu_cores, model, threads, lists, step_vars, workload0, list0,
                 sim_thread, ui_vars, view_vars, settled, hist_vars, race_vars>>

\* run, line 173: the test of the while loop.  When it fails run() returns.
LoopCheck(l) ==
  /\ loop_pc[l] = "check"
  /\ loop_pc' = [loop_pc EXCEPT ![l] = IF running_flag THEN "step" ELSE "return"]
  /\ stop_seen' = [stop_seen EXCEPT ![l] = IF running_flag THEN @ ELSE "no"]
  /\ UNCHANGED <<sched_vars, step_vars, workload0, list0, sim_thread, ui_vars,
                 view_vars, settled, hist_vars, tick_hist, view_hist>>

\* The thread that has returned from run() finishes.
LoopExit(l) ==
  /\ loop_pc[l] = "return"
  /\ loop_pc' = [loop_pc EXCEPT ![l] = "idle"]
  /\ UNCHANGED <<sched_vars, step_vars, workload0, list0, sim_thread, ui_vars,
                 view_vars, settled, hist_vars, race_vars>>

\* ---------------------------------------------------------------- step(), line by line
\* A background thread inside step().  It holds the scheduler lock from line
\* 102 to the end, which keeps other step() calls and the clear of reset()
\* out; add_thread(), stop(), _start_sim and the display do not take the lock
\* and run between its lines.  Each action below contains at most one access
\* to state that they touch (time, all_threads, ready_queue, event_queue,
\* cpu_cores, running_flag, a thread's state and timeline, a workload list);
\* blocked, running and the local variables are touched under the lock only.
StepFrame ==
  UNCHANGED <<lock, workload0, list0, loop_vars, ui_vars, view_vars, settled,
              hist_vars, race_vars>>

\* Line 102: with self.lock.
StepLock(l, cap) ==
  /\ loop_pc[l] = "step"
  /\ lock = Free
  /\ time < cap
  /\ ui.start_id # 0 => time < MaxBatchTime
  /\ lock' = l
  /\ step_pc' = "time"
  /\ tick_hist' = [before |-> Snap(Sched), after |-> Snap(step(Sched)),
                   clean |-> TRUE]
  /\ UNCHANGED <<sched_vars, loc, workload0, list0, loop_vars, ui_vars, view_vars,
                 settled, hist_vars, stop_seen, view_hist>>

\* Lines 103-107: self.time += 1, and the copy list(self.blocked).
StepTime ==
  /\ step_pc = "time"
  /\ Install([Sched EXCEPT !.time = @ + 1])
  /\ loc' = [NoLoc EXCEPT !.bl = blocked, !.i = 1]
  /\ step_pc' = "io"
  /\ StepFrame

\* Lines 107-111 and 113-115: one entry of the copy; th.to_ready() when its
\* I/O is over.  After the last entry self.blocked = still_blocked.
StepIo ==
  /\ step_pc = "io"
  /\ IF loc.i > Len(loc.bl)
     THEN /\ Install([Sched EXCEPT !.blocked = loc.still_blocked])
          /\ loc' = [loc EXCEPT !.i = 1]
          /\ step_pc' = "requeue"
     ELSE LET th == loc.bl[loc.i][1]
              remaining_io == loc.bl[loc.i][2] - 1
          IN  IF remaining_io <= 0
              THEN /\ Install(to_ready(Sched, th))
                   /\ loc' = [loc EXCEPT !.new_ready = Append(@, th), !.th = th]
                   /\ step_pc' = "unblocked"
              ELSE /\ UNCHANGED sched_vars
                   /\ loc' = [loc EXCEPT !.i = @ + 1,
                                         !.still_blocked = Append(@, <<th, remaining_io>>)]
                   /\ step_pc' = "io"
  /\ StepFrame

\* Line 112: self._emit('unblocked', th).
StepUnblocked ==
  /\ step_pc = "unblocked"
  /\ Install(_emit(Sched, "unblocked", loc.th))
  /\ loc' = [loc EXCEPT !.i = @ + 1]
  /\ step_pc' = "io"
  /\ StepFrame

\* Lines 118-119: self.ready_queue.append(th) for one thread of new_ready.
StepRequeue ==
  /\ step_pc = "requeue"
  /\ IF loc.i > Len(loc.new_ready)
     THEN /\ UNCHANGED sched_vars
          /\ UNCHANGED loc
          /\ step_pc' = "vacancies"
     ELSE /\ Install([Sched EXCEPT !.ready_queue = Append(@, loc.new_ready[loc.i])])
          /\ loc' = [loc EXCEPT !.i = @ + 1]
          /\ step_pc' = "requeue"
  /\ StepFrame

\* Lines 122-124: the running list is filtered and cpu_cores is read.
StepVacancies ==
  /\ step_pc = "vacancies"
  /\ Install([Sched EXCEPT !.running = still_running(Sched)])
  /\ loc' = [loc EXCEPT !.vacancies = cpu_cores - Len(still_running(Sched)), !.i = 0]
  /\ step_pc' = "dispatch"
  /\ StepFrame

\* Lines 125-127: one iteration of range(vacancies); the test of the ready
\* queue and popleft().  After the last one, line 133: list(self.running).
StepDispatch ==
  /\ step_pc = "dispatch"
  /\ IF loc.i >= loc.vacancies
     THEN /\ UNCHANGED sched_vars
          /\ loc' = [loc EXCEPT !.run = running, !.i = 1]
          /\ step_pc' = "execute"
     ELSE IF ready_queue # <<>>
          THEN /\ Install([Sched EXCEPT !.ready_queue = Tail(@)])
               /\ loc' = [loc EXCEPT !.th = Head(ready_queue)]
               /\ step_pc' = "to_running"
          ELSE /\ UNCHANGED sched_vars
               /\ loc' = [loc EXCEPT !.i = @ + 1]
               /\ step_pc' = "dispatch"
  /\ StepFrame

\* Lines 128-129: th.to_running() and self.running.append(th).
StepToRunning ==
  /\ step_pc = "to_running"
  /\ Install([to_running(Sched, loc.th) EXCEPT !.running = Append(@, loc.th)])
  /\ UNCHANGED loc
  /\ step_pc' = "running"
  /\ StepFrame

\* Line 130: self._emit('running', th).
StepRunning ==
  /\ step_pc = "running"
  /\ Install(_emit(Sched, "running", loc.th))
  /\ loc' = [loc EXCEPT !.i = @ + 1]
  /\ step_pc' = "dispatch"
  /\ StepFrame

\* Lines 133-135: the countdown of one thread of the copy and its timeline
\* entry.
StepExecute ==
  /\ step_pc = "execute"
  /\ IF loc.i > Len(loc.run)
     THEN /\ UNCHANGED sched_vars
          /\ UNCHANGED loc
          /\ step_pc' = "tick"
     ELSE LET th == loc.run[loc.i]
          IN  /\ Install([Sched EXCEPT
                            !.threads[th].current_burst_remaining = @ - 1,
                            !.threads[th].timeline = Append(@, <<time, threads[th].state>>)])
              /\ loc' = [loc EXCEPT !.th = th]
              /\ step_pc' = "burst"
  /\ StepFrame

\* Lines 137-142 and 151: the end of the burst; th.bursts.pop(0).
StepBurst ==
  /\ step_pc = "burst"
  /\ IF threads[loc.th].current_burst_remaining <= 0
     THEN IF Len(Bursts(Sched, loc.th)) > 1
          THEN /\ Install([Sched EXCEPT !.lists[threads[loc.th].bursts] = Tail(@)])
               /\ UNCHANGED loc
               /\ step_pc' = IF Tail(Bursts(Sched, loc.th))[1][2] > 0
                             THEN "to_blocked" ELSE "to_ready"
          ELSE /\ UNCHANGED sched_vars
               /\ UNCHANGED loc
               /\ step_pc' = "terminate"
     ELSE /\ UNCHANGED sched_vars
          /\ loc' = [loc EXCEPT !.i = @ + 1]
          /\ step_pc' = "execute"
  /\ StepFrame

\* Lines 143-144: th.to_blocked() and self.blocked.append((th, io_time)).
StepToBlocked ==
  /\ step_pc = "to_blocked"
  /\ Install([to_blocked(Sched, loc.th) EXCEPT
                !.blocked = Append(@, <<loc.th, Bursts(Sched, loc.th)[1][2]>>)])
  /\ UNCHANGED loc
  /\ step_pc' = "blocked"
  /\ StepFrame

\* Line 145: self._emit('blocked', th).
StepBlocked ==
  /\ step_pc = "blocked"
  /\ Install(_emit(Sched, "blocked", loc.th))
  /\ loc' = [loc EXCEPT !.i = @ + 1]
  /\ step_pc' = "execute"
  /\ StepFrame

\* Lines 147-148: th.to_ready() and the reload of the countdown.
StepToReady ==
  /\ step_pc = "to_ready"
  /\ Install([to_ready(Sched, loc.th) EXCEPT
                !.threads[loc.th].current_burst_remaining = Bursts(Sched, loc.th)[1][1]])
  /\ UNCHANGED loc
  /\ step_pc' = "append"
  /\ StepFrame

\* Line 149: self.ready_queue.append(th).
StepAppend ==
  /\ step_pc = "append"
  /\ Install([Sched EXCEPT !.ready_queue = Append(@, loc.th)])
  /\ UNCHANGED loc
  /\ step_pc' = "ready"
  /\ StepFrame

\* Line 150: self._emit('ready', th).
StepReady ==
  /\ step_pc = "ready"
  /\ Install(_emit(Sched, "ready", loc.th))
  /\ loc' = [loc EXCEPT !.i = @ + 1]
  /\ step_pc' = "execute"
  /\ StepFrame

\* Line 152: th.terminate().
StepTerminate ==
  /\ step_pc = "terminate"
  /\ Install(terminate(Sched, loc.th))
  /\ UNCHANGED loc
  /\ step_pc' = "terminated"
  /\ StepFrame

\* Line 153: self._emit('terminated', th).
StepTerminated ==
  /\ step_pc = "terminated"
  /\ Install(_emit(Sched, "terminated", loc.th))
  /\ loc' = [loc EXCEPT !.i = @ + 1]
  /\ step_pc' = "execute"
  /\ StepFrame

\* Line 155: self._emit('tick', None).
StepTick ==
  /\ step_pc = "tick"
  /\ Install(_emit(Sched, "tick", 0))
  /\ UNCHANGED loc
  /\ step_pc' = "all_threads"
  /\ StepFrame

\* Lines 158-159: if self.all_threads.
StepAllThreads ==
  /\ step_pc = "all_threads"
  /\ loc' = [loc EXCEPT !.all_done = all_threads # <<>>, !.i = 1]
  /\ step_pc' = IF all_threads # <<>> THEN "all_done" ELSE "unlock"
  /\ UNCHANGED sched_vars
  /\ StepFrame

\* Lines 160-165: one thread of the loop over self.all_threads, which reads
\* the list as it is when the thread's turn comes.
StepAllDone ==
  /\ step_pc = "all_done"
  /\ IF loc.i > Len(all_threads)
     THEN /\ UNCHANGED loc
          /\ step_pc' = "stop"
     ELSE IF threads[all_threads[loc.i]].state # "TERMINATED"
          THEN /\ loc' = [loc EXCEPT !.all_done = FALSE]
               /\ step_pc' = "stop"
          ELSE /\ loc' = [loc EXCEPT !.i = @ + 1]
               /\ step_pc' = "all_done"
  /\ UNCHANGED sched_vars
  /\ StepFrame

\* Lines 167-168: if all_done, self.stop().
StepStop ==
  /\ step_pc = "stop"
  /\ Install(IF loc.all_done THEN stop(Sched) ELSE Sched)
  /\ UNCHANGED loc
  /\ step_pc' = IF loc.all_done THEN "finished" ELSE "unlock"
  /\ StepFrame

\* Line 169: self._emit('finished', None).
StepFinished ==
  /\ step_pc = "finished"
  /\ Install(_emit(Sched, "finished", 0))
  /\ UNCHANGED loc
  /\ step_pc' = "unlock"
  /\ StepFrame

\* The lock is released and step() returns; run, line 175: the sleep.
StepUnlock(l) ==
  /\ step_pc = "unlock"
  /\ lock = l
  /\ lock' = Free
  /\ step_pc' = "idle"
  /\ loc' = NoLoc
  /\ loop_pc' = [loop_pc EXCEPT ![l] = "check"]
  /\ stop_seen' = [stop_seen EXCEPT ![l] = IF @ = "last" THEN "exit" ELSE @]
  /\ tick_hist' = NoTick
  /\ view_hist' = [view_hist EXCEPT !.inside = @ /\ ~view_hist.open]
  /\ UNCHANGED <<sched_vars, workload0, list0, sim_thread, ui_vars, view_vars,
                 settled, hist_vars>>

\* The lines of step() after the lock was taken.
StepLine ==
  \/ StepTime \/ StepIo \/ StepUnblocked \/ StepRequeue
  \/ StepVacancies \/ StepDispatch \/ StepToRunning \/ StepRunning
  \/ StepExecute \/ StepBurst \/ StepToBlocked \/ StepBlocked
  \/ StepToReady \/ StepAppend \/ StepReady \/ StepTerminate \/ StepTerminated
  \/ StepTick \/ StepAllThreads \/ StepAllDone \/ StepStop \/ StepFinished

\* ---------------------------------------------------------------- add_thread(), line by line
\* The caller executes scheduler.add_thread(SimThread(tid, bursts)) while
\* background threads run.
AddFrame ==
  UNCHANGED <<step_vars, loop_vars, view_vars, stop_seen, view_hist>>

\* SimThread(tid, bursts) is built, and line 80: self.all_threads.append.
AddAppend(budget) ==
  /\ ui_pc = "idle"
  /\ \E arg \in Arguments(budget) :
       \E s \in Build(arg, budget) :
         /\ Install([s EXCEPT !.all_threads = Append(@, Len(all_threads) + 1)])
         /\ Built(s)
  /\ ui' = [ui EXCEPT !.th = Len(all_threads) + 1]
  /\ ui_pc' = "start_ready"
  /\ settled' = FALSE
  /\ tick_hist' = touched
  /\ AddFrame

\* Lines 81 and 44-46: start_ready() tests the state of the thread and makes
\* it READY.
AddStartReady ==
  /\ ui_pc = "start_ready"
  /\ Install(IF threads[ui.th].state = "NEW"
             THEN [Sched EXCEPT !.threads[ui.th].state = "READY"] ELSE Sched)
  /\ ui_pc' = IF threads[ui.th].state = "NEW" THEN "countdown" ELSE "ready_queue"
  /\ tick_hist' = touched
  /\ UNCHANGED <<workload0, list0, ui, settled, hist_vars>>
  /\ AddFrame

\* Line 47: self.current_burst_remaining = self.bursts[0][0].
AddCountdown ==
  /\ ui_pc = "countdown"
  /\ Install([Sched EXCEPT !.threads[ui.th].current_burst_remaining =
                              Bursts(Sched, ui.th)[1][1]])
  /\ ui_pc' = "ready_queue"
  /\ tick_hist' = touched
  /\ UNCHANGED <<workload0, list0, ui, settled, hist_vars>>
  /\ AddFrame

\* Line 82: self.ready_queue.append(simthread).
AddQueue ==
  /\ ui_pc = "ready_queue"
  /\ Install([Sched EXCEPT !.ready_queue = Append(@, ui.th)])
  /\ ui_pc' = "emit"
  /\ tick_hist' = touched
  /\ UNCHANGED <<workload0, list0, ui, settled, hist_vars>>
  /\ AddFrame

\* Lines 83 and 86: the tuple (self.time, 'added', simthread) is built.
AddEmit ==
  /\ ui_pc = "emit"
  /\ ui' = [ui EXCEPT !.item = <<time, "added", ui.th>>]
  /\ ui_pc' = "put"
  /\ UNCHANGED <<sched_vars, workload0, list0, settled, hist_vars, tick_hist>>
  /\ AddFrame

\* Line 86: self.event_queue.put of the tuple.  add_thread() returns, to
\* its caller or to the loop of _add_threads (start_id # 0).
AddPut ==
  /\ ui_pc = "put"
  /\ Install([Sched EXCEPT !.event_queue = Append(@, ui.item)])
  /\ ui' = IF ui.start_id = 0 THEN NoUi
           ELSE [ui EXCEPT !.th = 0, !.item = <<>>, !.i = @ + 1]
  /\ ui_pc' = IF ui.start_id = 0 THEN "idle" ELSE "for"
  /\ UNCHANGED <<workload0, list0, settled, hist_vars, tick_hist>>
  /\ AddFrame

AddLine == AddStartReady \/ AddCountdown \/ AddQueue \/ AddEmit \/ AddPut

\* ---------------------------------------------------------------- _add_threads, line by line
\* The button "Add 5 Threads".  The callback runs on the caller's thread, so
\* no other callback and no pass of the display runs between its lines; the
\* background threads do.
\* Line 310: start_id = len(self.scheduler.all_threads) + 1.
AddThreadsBegin ==
  /\ ui_pc = "idle"
  /\ Len(all_threads) + batch <= Cardinality(Slots)
  /\ ui' = [NoUi EXCEPT !.start_id = Len(all_threads) + 1]
  /\ ui_pc' = "for"
  /\ settled' = FALSE
  /\ UNCHANGED <<sched_vars, workload0, list0, tick_hist>>
  /\ AddFrame

\* The ticks asked for by the threads this call has built so far.
RECURSIVE BatchWork(_)
BatchWork(i) ==
  IF i = 0 THEN 0 ELSE Work(workload0[ui.start_id + i - 1]) + BatchWork(i - 1)

\* What rand_bursts() may return for the next thread of the call: the draws
\* that leave the rest of the call within MaxBatchWork.
BatchDraws ==
  { w \in rand_bursts :
      BatchWork(ui.i) + Work(w) + count * (batch - ui.i - 1) <= MaxBatchWork }

\* Lines 311-314 and 80: the next thread of the loop is built on a list that
\* rand_bursts() returns (its tid is start_id + i) and add_thread() appends it
\* to the registry.  After the last thread, lines 315 and 318: _refresh_listbox
\* empties the list box.
AddThreadsFor ==
  /\ ui_pc = "for"
  /\ IF ui.i < batch
     THEN LET th == ui.start_id + ui.i
          IN  /\ \E r \in bursts_or_rand(lists, 0, FreshCell, BatchDraws) :
                   /\ Install([Sched EXCEPT !.lists = r.lists,
                                            !.threads[th] = SimThread(r.cell),
                                            !.all_threads = Append(@, th)])
                   /\ workload0' = [workload0 EXCEPT ![th] = r.lists[r.cell]]
                   /\ list0' = [list0 EXCEPT ![r.cell] = r.lists[r.cell]]
              /\ ui' = [ui EXCEPT !.th = th]
              /\ ui_pc' = "start_ready"
              /\ tick_hist' = touched
              /\ UNCHANGED listbox
     ELSE /\ listbox' = <<>>
          /\ ui' = [ui EXCEPT !.k = 1]
          /\ ui_pc' = "rows"
          /\ UNCHANGED <<sched_vars, workload0, list0, tick_hist>>
  /\ UNCHANGED <<step_vars, loop_vars, chart, dialogs, refreshes, settled, hist_vars,
                 stop_seen, view_hist>>

\* Lines 319-324: the row of one thread of the registry; after the last row
\* the callback returns.
AddThreadsRow ==
  /\ ui_pc = "rows"
  /\ IF ui.k > Len(all_threads)
     THEN /\ UNCHANGED listbox
          /\ ui' = NoUi
          /\ ui_pc' = "idle"
     ELSE /\ listbox' = Append(listbox, <<all_threads[ui.k], threads[all_threads[ui.k]].state>>)
          /\ ui' = [ui EXCEPT !.k = @ + 1]
          /\ ui_pc' = "rows"
  /\ UNCHANGED <<sched_vars, step_vars, workload0, list0, loop_vars, chart, dialogs,
                 refreshes, settled, hist_vars, race_vars>>

AddThreadsLine == AddThreadsFor \/ AddThreadsRow

\* ---------------------------------------------------------------- one run
\* Threads are registered, one by one or by _add_threads, then _start_sim
\* starts the one background thread that executes run(); nothing else is
\* called, so no other thread runs between the lines of a step().  The steps
\* of the background thread are scheduled fairly.  Every tick that finds an
\* unfinished thread consumes one tick of some workload, so a run with
\* threads ends within MaxLiveWork + MaxBatchWork ticks; the cap on the tick
\* only ends a run without threads.
LiveAdd ==
  /\ sim_thread = 0
  /\ \E arg \in Arguments(MaxLiveWork) : DoAdd(arg, MaxLiveWork)
  /\ UNCHANGED hist_vars

LiveAddThreads == sim_thread = 0 /\ AddThreadsBegin /\ UNCHANGED hist_vars

LiveCores == sim_thread = 0 /\ StartCores /\ UNCHANGED hist_vars

LiveAlive == StartAlive

LiveNew == StartNew

LiveBegin == LoopBegin(1)

LiveCheck == LoopCheck(1)

\* run, lines 174-175.
LiveStep ==
  /\ loop_pc[1] = "step"
  /\ lock = Free
  /\ time < MaxTime + MaxBatchWork
  /\ Install(step(Sched))
  /\ loop_pc' = [loop_pc EXCEPT ![1] = "check"]
  /\ UNCHANGED <<step_vars, workload0, list0, sim_thread, ui_vars, view_vars,
                 settled, hist_vars, race_vars>>

LiveExit == LoopExit(1)

NextLive ==
  \/ LiveAdd \/ LiveAddThreads \/ AddLine \/ AddThreadsLine
  \/ LiveCores \/ LiveAlive \/ LiveNew
  \/ LiveBegin \/ LiveCheck \/ LiveStep \/ LiveExit

SpecLive ==
  /\ Init /\ [][NextLive]_vars
  /\ WF_vars(LiveBegin) /\ WF_vars(LiveCheck) /\ WF_vars(LiveStep) /\ WF_vars(LiveExit)

\* ---------------------------------------------------------------- the run loops
\* The caller registers threads and starts, pauses and resets the simulation
\* while up to MaxLoops background threads execute run().  script keeps the
\* calls the caller has made.
CanCallRun == ui_pc = "idle" /\ Len(script) < MaxRunCalls

Called(call) == script' = Append(script, <<call, 0>>) /\ UNCHANGED prev

RunAdd == CanCallRun /\ AddAppend(MaxRunWork) /\ Called("add_thread")

\* _add_threads before the first start.
RunAddThreads ==
  CanCallRun /\ sim_thread = 0 /\ AddThreadsBegin /\ Called("_add_threads")

RunStart == CanCallRun /\ StartCores /\ Called("_start_sim")

RunPause == CanCallRun /\ PauseSim /\ Called("_pause_sim")

RunReset == CanCallRun /\ ResetStop /\ Called("_reset_sim")

NextRun ==
  \/ RunAdd \/ AddLine
  \/ RunAddThreads \/ AddThreadsLine
  \/ RunStart \/ StartAlive \/ StartFlag \/ StartNew
  \/ RunPause
  \/ RunReset \/ ResetClear \/ ResetView
  \/ \E l \in Loops : \/ LoopBegin(l) \/ LoopCheck(l) \/ LoopExit(l)
                      \/ StepLock(l, MaxRunTime) \/ StepUnlock(l)
  \/ StepLine

SpecRun == Init /\ [][NextRun]_vars

\* ---------------------------------------------------------------- the display
\* The callback updater of _start_ui_updater, which the user interface runs
\* every 200 ms on the thread of the caller.
ViewFrame ==
  UNCHANGED <<step_vars, workload0, list0, loop_vars, settled, hist_vars,
              stop_seen, tick_hist>>

\* Lines 357-362: one get_nowait() and _handle_event, which shows a message
\* box for `finished`; on queue.Empty the list box is emptied (line 318).
UpdaterGet ==
  /\ \/ ui_pc = "idle" /\ refreshes < MaxRefresh
     \/ ui_pc = "get"
  /\ refreshes' = IF ui_pc = "idle" THEN refreshes + 1 ELSE refreshes
  /\ IF event_queue # <<>>
     THEN /\ Install([Sched EXCEPT !.event_queue = Tail(@)])
          /\ dialogs' = dialogs + (IF Head(event_queue)[2] = "finished" THEN 1 ELSE 0)
          /\ ui_pc' = "get"
          /\ UNCHANGED <<ui, listbox, view_hist>>
     ELSE /\ UNCHANGED sched_vars
          /\ listbox' = <<>>
          /\ ui' = [ui EXCEPT !.k = 1]
          /\ ui_pc' = "listbox"
          /\ view_hist' = [open |-> TRUE, done |-> FALSE, inside |-> lock # Free,
                           clean |-> tick_hist.clean, before |-> tick_hist.before,
                           after |-> tick_hist.after, chart |-> chart]
          /\ UNCHANGED dialogs
  /\ UNCHANGED chart
  /\ ViewFrame

\* Lines 319-324: the row of one thread of the registry.
UpdaterRow ==
  /\ ui_pc = "listbox"
  /\ IF ui.k > Len(all_threads)
     THEN /\ UNCHANGED <<listbox, ui>>
          /\ ui_pc' = "draw"
     ELSE /\ listbox' = Append(listbox, <<all_threads[ui.k], threads[all_threads[ui.k]].state>>)
          /\ ui' = [ui EXCEPT !.k = @ + 1]
          /\ ui_pc' = "listbox"
  /\ UNCHANGED <<sched_vars, chart, dialogs, refreshes, view_hist>>
  /\ ViewFrame

\* Lines 372-380: _draw_timeline returns when there is no thread, else it
\* clears the axes and sorts a copy of the registry by tid.
UpdaterDraw ==
  /\ ui_pc = "draw"
  /\ IF all_threads = <<>>
     THEN /\ UNCHANGED <<chart, ui>>
          /\ ui_pc' = "idle"
          /\ view_hist' = [view_hist EXCEPT !.open = FALSE, !.done = TRUE]
     ELSE /\ chart' = ClearChart
          /\ ui' = [ui EXCEPT !.k = 1, !.item = sorted(all_threads)]
          /\ ui_pc' = "timeline"
          /\ UNCHANGED view_hist
  /\ UNCHANGED <<sched_vars, listbox, dialogs, refreshes>>
  /\ ViewFrame

\* Lines 380-395: the loop over the timeline of one thread of the copy.  The
\* timeline only grows at its end, so the loop sees what one read at its end
\* sees.  After the last thread, lines 407-415: the title with the tick.
UpdaterTimeline ==
  /\ ui_pc = "timeline"
  /\ IF ui.k > Len(ui.item)
     THEN /\ chart' = [chart EXCEPT !.title = "Scheduling Timeline", !.t = time]
          /\ ui' = NoUi
          /\ ui_pc' = "idle"
          /\ view_hist' = [view_hist EXCEPT !.open = FALSE, !.done = TRUE]
     ELSE /\ ui' = [ui EXCEPT !.r = segs_loop(threads[ui.item[ui.k]].timeline,
                                              1, "NONE", 0, <<>>)]
          /\ ui_pc' = "segment"
          /\ UNCHANGED <<chart, view_hist>>
  /\ UNCHANGED <<sched_vars, listbox, dialogs, refreshes>>
  /\ ViewFrame

\* Lines 396-405: the open segment ends at the tick read now; the bars.
UpdaterSegment ==
  /\ ui_pc = "segment"
  /\ chart' = [chart EXCEPT !.bars = Append(@, <<ui.item[ui.k], last_seg(ui.r, time)>>)]
  /\ ui' = [ui EXCEPT !.k = @ + 1, !.r = NoSegs]
  /\ ui_pc' = "timeline"
  /\ UNCHANGED <<sched_vars, listbox, dialogs, refreshes, view_hist>>
  /\ ViewFrame

Updater == UpdaterGet \/ UpdaterRow \/ UpdaterDraw \/ UpdaterTimeline \/ UpdaterSegment

\* ---------------------------------------------------------------- concurrent callers
\* One background thread executes run() while the caller registers threads.
RaceAdd == AddAppend(MaxRaceWork) /\ UNCHANGED hist_vars

RaceAddThreads == AddThreadsBegin /\ UNCHANGED hist_vars

RaceCores == sim_thread = 0 /\ StartCores /\ UNCHANGED hist_vars

NextRace ==
  \/ RaceAdd \/ AddLine
  \/ RaceAddThreads \/ AddThreadsLine
  \/ RaceCores \/ StartAlive \/ StartNew
  \/ LoopBegin(1) \/ LoopCheck(1) \/ LoopExit(1)
  \/ StepLock(1, MaxRaceTime) \/ StepUnlock(1)
  \/ StepLine

SpecRace == Init /\ [][NextRace]_vars

\* ---------------------------------------------------------------- the display at work
\* Threads are registered, _start_sim starts the background thread, and the
\* display's callback runs on the caller's thread while the ticks go on.
ViewAdd ==
  /\ sim_thread = 0
  /\ \E arg \in Arguments(MaxViewWork) : DoAdd(arg, MaxViewWork)
  /\ UNCHANGED hist_vars

\* _add_threads before the start.
ViewAddThreads == sim_thread = 0 /\ AddThreadsBegin /\ UNCHANGED hist_vars

ViewCores == sim_thread = 0 /\ StartCores /\ UNCHANGED hist_vars

NextView ==
  \/ ViewAdd
  \/ ViewAddThreads \/ AddLine \/ AddThreadsLine
  \/ ViewCores \/ StartAlive \/ StartNew
  \/ Updater
  \/ LoopBegin(1) \/ LoopCheck(1) \/ LoopExit(1)
  \/ StepLock(1, MaxViewTime) \/ StepUnlock(1)
  \/ StepLine

SpecView == Init /\ [][NextView]_vars

\* ---------------------------------------------------------------- claims
Registered == Range(all_threads)

InBlocked(th) == \E i \in 1..Len(blocked) : blocked[i][1] = th

EvIdx(ev) == {i \in 1..Len(event_queue) : event_queue[i][2] = ev}

EvOf(ev, th) ==
  {i \in 1..Len(event_queue) : event_queue[i][2] = ev /\ event_queue[i][3] = th}

B2I(b) == IF b THEN 1 ELSE 0

IsPrefix(p, q) == Len(p) <= Len(q) /\ p = SubSeq(q, 1, Len(p))

\* A step() has just been executed: the only operation that advances the tick.
IsStep == time' = time + 1

\* C1: every registered thread is in exactly one of ready_queue, blocked,
\* running, or is Terminated (and then in none of the three containers).
C1_ExactlyOnePlace ==
  \A th \in Registered :
    B2I(th \in Range(ready_queue)) + B2I(InBlocked(th)) + B2I(th \in Range(running))
      + B2I(threads[th].state = "TERMINATED") = 1

\* C2: the running list never holds more than cpu_cores threads, before and
\* after every step().
C2_RunningWithinCores == Len(running) <= cpu_cores

C2_Witness ==
  /\ time >= 1
  /\ Len(running) = cpu_cores
  /\ ready_queue # <<>>

\* C3: when no thread is added after a `finished` event, `finished` is in the
\* event queue at most once, it is there as soon as every registered thread
\* is Terminated, and it carries the tick of the last `terminated` event.
C3_FinishedOnce ==
  (\A a \in EvIdx("added") : \A f \in EvIdx("finished") : a < f) =>
    /\ Cardinality(EvIdx("finished")) <= 1
    /\ (all_threads # <<>> /\ all_done(Sched)) => EvIdx("finished") # {}
    /\ \A f \in EvIdx("finished") :
         /\ EvIdx("terminated") # {}
         /\ \A t \in EvIdx("terminated") : event_queue[t][1] <= event_queue[f][1]
         /\ \E t \in EvIdx("terminated") : event_queue[t][1] = event_queue[f][1]

\* C4: a step() leaves a Terminated thread's state, countdown, remaining
\* bursts and timeline as they were, and puts it neither in ready_queue nor
\* in blocked.
C4_TerminatedFrozen ==
  [][IsStep =>
       \A th \in Slots :
         threads[th].state = "TERMINATED" =>
           /\ threads'[th] = threads[th]
           /\ lists'[threads[th].bursts] = lists[threads[th].bursts]
           /\ th \notin Range(ready_queue')
           /\ \A i \in 1..Len(blocked') : blocked'[i][1] # th]_vars

C4_Witness ==
  \E th \in Registered :
    /\ threads[th].state = "TERMINATED"
    /\ threads[th].timeline[Len(threads[th].timeline)][1] < time
    /\ th \notin Range(running)

TimelineOk(tl) ==
  /\ \A i \in 1..Len(tl) :
       /\ tl[i][2] = "RUNNING"
       /\ tl[i][1] \in 1..time
  /\ \A i \in 1..Len(tl), j \in 1..Len(tl) : i < j => tl[i][1] < tl[j][1]

C5_TimelineInv == \A th \in Slots : TimelineOk(threads[th].timeline)

C5_TimelineStep ==
  IsStep =>
    \A th \in Slots :
      \/ threads'[th].timeline = threads[th].timeline
      \/ /\ threads'[th].timeline =
              Append(threads[th].timeline, <<time', "RUNNING">>)
         /\ th \in Range(running')

\* C5: every timeline entry is (t, Running) with ticks strictly increasing;
\* a step() appends at most one entry to a thread, stamped with its own tick,
\* and only to threads it held in the running list.
C5_Timeline == [](C5_TimelineInv) /\ [][C5_TimelineStep]_vars

C5_Witness ==
  \E th \in Registered :
    /\ Len(threads[th].timeline) >= 2
    /\ threads[th].timeline[2][1] > threads[th].timeline[1][1] + 1

C6_Scenario ==
  /\ cpu_cores = 1
  /\ all_threads = <<1>>
  /\ workload0[1] = << <<1, 2>>, <<1, 0>> >>
  /\ event_queue[1] = <<0, "added", 1>>

\* C6: 1 core, one thread [(1,2),(1,0)] added before the first step: after
\* tick 1 it is Blocked with 2 I/O ticks left and `blocked` was emitted, after
\* tick 2 it is still Blocked, on tick 3 it is unblocked, on tick 4 it is
\* dispatched and after tick 4 it is Terminated.
C6_BlockThenRun ==
  C6_Scenario =>
    /\ time = 1 => /\ threads[1].state = "BLOCKED"
                   /\ blocked = << <<1, 2>> >>
                   /\ \E i \in EvOf("blocked", 1) : event_queue[i][1] = 1
    /\ time = 2 => threads[1].state = "BLOCKED"
    /\ time = 3 => \E i \in EvOf("unblocked", 1) : event_queue[i][1] = 3
    /\ time = 4 => /\ \E i \in EvOf("running", 1) : event_queue[i][1] = 4
                   /\ threads[1].state = "TERMINATED"

\* C7: a Terminated thread has run for exactly the sum of the cpu lengths of
\* the workload it was built with; a lone thread [(n,0)] on one core runs on
\* ticks 1..n, terminates on tick n and `finished` is emitted on tick n.
C7_RunsCpuLength ==
  /\ \A th \in Registered :
       threads[th].state = "TERMINATED" =>
         Len(threads[th].timeline) = SumCpu(workload0[th])
  /\ \A n \in 1..MaxWork :
       ( /\ cpu_cores = 1
         /\ all_threads = <<1>>
         /\ workload0[1] = << <<n, 0>> >>
         /\ event_queue[1] = <<0, "added", 1>>
         /\ time >= n ) =>
           /\ threads[1].timeline = [i \in 1..n |-> <<i, "RUNNING">>]
           /\ \E i \in EvOf("terminated", 1) : event_queue[i][1] = n
           /\ \E i \in EvIdx("finished") : event_queue[i][1] = n

\* The threads a step() dispatches: in the running list afterwards, and not
\* among those that were still Running when the tick began.
Dispatched == Range(running') \ Range(still_running(Sched))

C8_FifoStep ==
  IsStep =>
    /\ \A i \in 1..Len(ready_queue), j \in 1..Len(ready_queue) :
         (i < j /\ ready_queue[j] \in Dispatched) => ready_queue[i] \in Dispatched
    /\ (Dispatched \ Range(ready_queue) # {}) => Range(ready_queue) \subseteq Dispatched
    /\ \A th \in Range(still_running(Sched)) :
         /\ th \in Range(running')
         /\ threads'[th].timeline = Append(threads[th].timeline, <<time', "RUNNING">>)
    /\ Cardinality(Dispatched) <= cpu_cores - Len(still_running(Sched))

C8_Scenario ==
  /\ cpu_cores = 1
  /\ all_threads = <<1, 2>>
  /\ workload0[1] = << <<2, 0>> >>
  /\ workload0[2] = << <<2, 0>> >>
  /\ event_queue[1] = <<0, "added", 1>>
  /\ event_queue[2] = <<0, "added", 2>>

C8_ScenarioInv ==
  C8_Scenario =>
    /\ time >= 2 => /\ SubSeq(threads[1].timeline, 1, 2) =
                         << <<1, "RUNNING">>, <<2, "RUNNING">> >>
                    /\ threads[1].state = "TERMINATED"
                    /\ \E i \in EvOf("terminated", 1) : event_queue[i][1] = 2
    /\ time <= 2 => /\ threads[2].timeline = <<>>
                    /\ EvOf("running", 2) = {}
    /\ time >= 3 => \A i \in EvOf("running", 2) : event_queue[i][1] = 3
    /\ time = 3 => threads[2].timeline = << <<3, "RUNNING">> >>
    /\ time >= 4 => /\ threads[2].timeline = << <<3, "RUNNING">>, <<4, "RUNNING">> >>
                    /\ \E i \in EvOf("terminated", 2) : event_queue[i][1] = 4
                    /\ \E i \in EvIdx("finished") : event_queue[i][1] = 4
    /\ time < 4 => EvIdx("finished") = {}

\* C8: dispatch is FIFO and non-preemptive.  A step() dispatches a prefix of
\* the ready queue (threads unblocked in this tick queue behind it), keeps
\* every thread that is still Running on its core, and hands out only the
\* cores that were vacant when the tick began.  With 1 core and A = B =
\* [(2,0)] added before the first step, A runs ticks 1-2 and terminates on
\* tick 2, B is dispatched on tick 3 and runs ticks 3-4, and `finished` is
\* first emitted on tick 4.
C8_FifoDispatch == [](C8_ScenarioInv) /\ [][C8_FifoStep]_vars

C8_Witness ==
  /\ C8_Scenario
  /\ time = 4
  /\ threads[2].state = "TERMINATED"

\* C9: the run after a reset() that repeats the calls of the run before it
\* (same cpu_cores, the same pre-built workloads in the same order, same
\* steps) emits the same events and builds the same timelines, call for call,
\* whether the caller passes the lists it built for the first run again or
\* builds them anew.
C9_Deterministic ==
  Replaying =>
    /\ IsPrefix(event_queue, prev.events)
    /\ \A th \in Slots : IsPrefix(threads[th].timeline, prev.timelines[th])
    /\ Len(script) = Len(prev.script) =>
         /\ event_queue = prev.events
         /\ \A th \in Slots : threads[th].timeline = prev.timelines[th]

\* C10: once reset() has returned (it was called when every live background
\* thread was inside the loop of run(), and nothing was called since) the
\* scheduler stays cleared: no tick of the earlier run loop follows the clear.
C10_ResetStays ==
  (settled /\ ui_pc = "idle") =>
    /\ time = 0
    /\ ready_queue = <<>>
    /\ blocked = <<>>
    /\ running = <<>>
    /\ all_threads = <<>>
    /\ event_queue = <<>>

\* C11: a stop() issued while a run loop is active lets the tick in progress
\* complete, after which that loop starts no further tick and terminates; at
\* most one run loop is stepping the scheduler at any time.
C11_OneRunLoop ==
  /\ \A l \in Loops : ~(stop_seen[l] = "exit" /\ loop_pc[l] = "step")
  /\ Cardinality({l \in Loops : loop_pc[l] = "step"}) <= 1

\* C12: what the display reads while a step() is running on another thread is
\* the state before that tick or the state after the complete tick: a pass of
\* _refresh_listbox and _draw_timeline made while one step() holds the lock
\* (and nothing else is called during that tick) shows the rows and the chart
\* of the one or of the other.
C12_NoPartialTick ==
  (view_hist.done /\ view_hist.inside /\ view_hist.clean) =>
    \/ /\ listbox = rows(view_hist.before)
       /\ chart = drawn_chart(view_hist.before, view_hist.chart)
    \/ /\ listbox = rows(view_hist.after)
       /\ chart = drawn_chart(view_hist.after, view_hist.chart)

\* The events a step of the program has put into the event queue.
Enqueued == (Len(event_queue) + 1)..Len(event_queue')

\* C13: invalid transitions are no-ops.  start_ready() on a thread that is not
\* New changes nothing; a Terminated thread stays Terminated whatever is called
\* on it (to_running, to_blocked, to_ready, terminate, add_thread and the
\* steps that follow), and enters neither ready_queue, blocked nor running.
C13_InvalidNoOp ==
  [][/\ \A th \in Slots :
          (script' = << <<"start_ready", th>> >> /\ threads[th].state # "NEW") =>
            UNCHANGED sched_vars
     /\ \A th \in Slots :
          threads[th].state = "TERMINATED" =>
            /\ threads'[th].state = "TERMINATED"
            /\ th \in Range(ready_queue') => th \in Range(ready_queue)
            /\ (\E i \in 1..Len(blocked') : blocked'[i][1] = th) => InBlocked(th)
            /\ th \in Range(running') => th \in Range(running)]_vars

\* C14: with no registered thread a step() adds 1 to the tick, emits exactly
\* one `tick` event and nothing else (no `finished`), leaves ready_queue,
\* blocked and running empty and leaves running_flag as it was.
C14_EmptyStep ==
  [][(IsStep /\ all_threads = <<>>) =>
       /\ time' = time + 1
       /\ event_queue' = Append(event_queue, <<time + 1, "tick", 0>>)
       /\ ready_queue' = <<>>
       /\ blocked' = <<>>
       /\ running' = <<>>
       /\ all_threads' = <<>>
       /\ running_flag' = running_flag]_vars

C14_Witness ==
  /\ all_threads = <<>>
  /\ running_flag
  /\ time = 2
  /\ event_queue = << <<1, "tick", 0>>, <<2, "tick", 0>> >>

\* C16: with at least one core and a non-empty set of registered threads with
\* finite workloads, and no add_thread() after the start, the steps of the
\* run loop eventually bring every thread to Terminated; running_flag is then
\* false, `finished` has been emitted and the run loop has returned.
C16_RunEnds ==
  (loop_pc[1] = "begin" /\ all_threads # <<>>) ~>
    /\ all_done(Sched)
    /\ ~running_flag
    /\ EvIdx("finished") # {}
    /\ loop_pc[1] = "idle"

C16_Witness ==
  /\ loop_pc[1] = "idle"
  /\ sim_thread = 1
  /\ Len(all_threads) = 2
  /\ all_done(Sched)
  /\ EvIdx("unblocked") # {}
  /\ EvIdx("finished") # {}
  /\ ~running_flag

\* The events of the execution phase that a step of the program has queued
\* for thread th.
Outcome(th) ==
  { event_queue'[i][2] : i \in { k \in Enqueued :
      /\ event_queue'[k][3] = th
      /\ event_queue'[k][2] \in {"blocked", "ready", "terminated"}
      /\ event_queue'[k][1] = time' } }

\* The execution phase as the claim describes it, thread by thread in the
\* order of the running list; ls holds the workload lists as they are when
\* the turn of the i-th thread comes (threads may keep the same list).
RECURSIVE C15_ExecuteLoop(_, _)
C15_ExecuteLoop(i, ls) ==
  IF i > Len(running') THEN ls = lists'
  ELSE LET th == running'[i]
           old == threads[th]
           new == threads'[th]
           remaining == ls[old.bursts]
           rem == old.current_burst_remaining - 1
       IN  /\ new.bursts = old.bursts
           /\ IF rem > 0
              THEN /\ new.state = "RUNNING"
                   /\ new.current_burst_remaining = rem
                   /\ Outcome(th) = {}
                   /\ C15_ExecuteLoop(i + 1, ls)
              ELSE IF Len(remaining) > 1
                   THEN /\ IF remaining[2][2] > 0
                           THEN /\ new.state = "BLOCKED"
                                /\ \E k \in 1..Len(blocked') :
                                     blocked'[k] = <<th, remaining[2][2]>>
                                /\ th \notin Range(ready_queue')
                                /\ Outcome(th) = {"blocked"}
                           ELSE /\ new.state = "READY"
                                /\ new.current_burst_remaining = remaining[2][1]
                                /\ \E k \in 1..Len(ready_queue') :
                                     /\ ready_queue'[k] = th
                                     /\ \A j \in (k + 1)..Len(ready_queue') :
                                          ready_queue'[j] \in Range(running')
                                /\ \A k \in 1..Len(blocked') : blocked'[k][1] # th
                                /\ Outcome(th) = {"ready"}
                        /\ C15_ExecuteLoop(i + 1, [ls EXCEPT ![old.bursts] = Tail(remaining)])
                   ELSE /\ new.state = "TERMINATED"
                        /\ th \notin Range(ready_queue')
                        /\ \A k \in 1..Len(blocked') : blocked'[k][1] # th
                        /\ Outcome(th) = {"terminated"}
                        /\ C15_ExecuteLoop(i + 1, ls)

\* C15: in the execution phase of a step(), a running thread whose countdown
\* reaches 0 with more than one burst left loses its front burst and, if the
\* new front burst has io > 0, becomes Blocked with (thread, io) in blocked and
\* a `blocked` event, otherwise becomes Ready with the countdown reloaded from
\* the new front burst, joins the tail of ready_queue and `ready` is emitted;
\* with exactly one burst left it becomes Terminated and `terminated` is
\* emitted; a thread whose countdown is still above 0 stays Running.  Threads
\* that are not executed get none of these events and no list changes
\* otherwise.
C15_Execution ==
  [][IsStep =>
       /\ C15_ExecuteLoop(1, lists)
       /\ \A th \in Slots \ Range(running') : Outcome(th) = {}]_vars

C15_Witness ==
  /\ EvIdx("blocked") # {}
  /\ EvIdx("ready") # {}
  /\ EvIdx("terminated") # {}
  /\ \E th \in Range(running) :
       /\ threads[th].state = "RUNNING"
       /\ threads[th].current_burst_remaining > 0
       /\ threads[th].timeline # <<>>

\* C17: a thread that waits in ready_queue (state Ready) has its countdown
\* equal to the cpu length of the front burst of its remaining workload, hence
\* at least 1: after registration, after a requeue without I/O and after its
\* return from Blocked.
C17_CountdownLoaded ==
  \A th \in Range(ready_queue) :
    threads[th].state = "READY" =>
      /\ threads[th].current_burst_remaining = Bursts(Sched, th)[1][1]
      /\ threads[th].current_burst_remaining >= 1

\* C18: whenever `finished` is emitted the registry is non-empty and every
\* thread in it is Terminated, also when add_thread() runs on another thread
\* while step() performs the completion check.
C18_FinishedAllDone ==
  [][(\E i \in Enqueued : event_queue'[i][2] = "finished") =>
       /\ all_threads' # <<>>
       /\ \A k \in 1..Len(all_threads') :
            threads'[all_threads'[k]].state = "TERMINATED"]_vars

C20_StampsOrdered ==
  \A i \in 1..Len(event_queue), j \in 1..Len(event_queue) :
    i < j => event_queue[i][1] <= event_queue[j][1]

C20_StampIsTick == \A i \in Enqueued : event_queue'[i][1] = time'

\* The `blocked` event of th that an `unblocked` event at index u answers.
LastBlocked(th, u) ==
  CHOOSE b \in EvOf("blocked", th) :
    b < u /\ \A c \in EvOf("blocked", th) : c < u => c <= b

\* The I/O length k that the block recorded at index b put into blocked: the
\* io of the burst at the front of the thread's list after the bursts
\* completed so far were removed (one per `blocked` or `ready` event of a
\* thread that keeps that list).
IoWait(th, b) ==
  list0[threads[th].bursts][Cardinality({i \in 1..b :
      /\ event_queue[i][2] \in {"blocked", "ready"}
      /\ threads[event_queue[i][3]].bursts = threads[th].bursts}) + 1][2]

C19_UnblockTick ==
  \A th \in Registered :
    LET open == {b \in EvOf("blocked", th) : \A u \in EvOf("unblocked", th) : u < b}
    IN  /\ \A u \in EvOf("unblocked", th) :
             /\ \E b \in EvOf("blocked", th) : b < u
             /\ IoWait(th, LastBlocked(th, u)) >= 1
             /\ event_queue[u][1] =
                  event_queue[LastBlocked(th, u)][1] + IoWait(th, LastBlocked(th, u))
        /\ threads[th].state = "BLOCKED" <=> open # {}
        /\ \A b \in open :
             /\ InBlocked(th)
             /\ time < event_queue[b][1] + IoWait(th, b)

C19_UnblockStep ==
  IsStep =>
    \A th \in Slots :
      (\E u \in Enqueued : event_queue'[u] = <<time', "unblocked", th>>) =>
        \/ /\ th \in Range(running')
           /\ \E u \in Enqueued, r \in Enqueued :
                /\ u < r
                /\ event_queue'[u] = <<time', "unblocked", th>>
                /\ event_queue'[r] = <<time', "running", th>>
        \/ /\ threads'[th].state = "READY"
           /\ \E p \in 1..Len(ready_queue') :
                /\ ready_queue'[p] = th
                /\ \A q \in 1..Len(ready_queue') :
                     /\ ( /\ ready_queue'[q] \in Range(ready_queue)
                          /\ ready_queue'[q] \notin Range(running') ) => q < p
                     /\ ready_queue'[q] \in Range(running') => p < q

\* C19: a thread blocked with I/O length k >= 1 during tick t is Blocked
\* through ticks t+1 .. t+k-1 and gets its `unblocked` event exactly on tick
\* t+k; on that tick it joins the tail of ready_queue before the dispatch, so
\* it is dispatched on tick t+k itself or waits behind the threads that were
\* queued already and ahead of those the execution phase of that tick requeues.
C19_IoWait == [](C19_UnblockTick) /\ [][C19_UnblockStep]_vars

C19_Witness ==
  \E th \in Registered :
    \E u \in EvOf("unblocked", th), r \in EvOf("running", th) :
      /\ u < r
      /\ event_queue[r][1] = event_queue[u][1]
      /\ event_queue[u][1] >= event_queue[LastBlocked(th, u)][1] + 2

\* C20: between resets the events are queued in emission order with
\* non-decreasing stamps, and each stamp is the scheduler's tick at the moment
\* the event is enqueued, also when add_thread() runs on another thread while
\* step() is running.
C20_EventOrder == [](C20_StampsOrdered) /\ [][C20_StampIsTick]_vars

====
